---- MODULE Spec2Model ----
(***************************************************************************)
(* Model of apps/viewer/pages/api/integrations/stripe/createPaymentIntent  *)
(* (typebot viewer): the handler that resolves stored Stripe credentials,  *)
(* picks test or live keys, computes the amount in minor units, calls the  *)
(* gateway and normalises its failures.                                    *)
(*                                                                         *)
(* Strings that the code parses are sequences of one-character strings.    *)
(* JavaScript numbers are IEEE-754 doubles; the amount arithmetic is       *)
(* carried out exactly on multi-limb naturals so that the two roundings    *)
(* (decimal -> double, double * 100 -> double) are those of the code.      *)
(***************************************************************************)
EXTENDS Integers, Sequences, FiniteSets, TLC

\* ------------------------------------------------------------------ bounds

\* Number of handler invocations that may be in flight together.
NumProcs == 2

\* Longest interpolated amount string enumerated by SpecAmount.
MaxLen == 4

\* ------------------------------------------------- multi-limb naturals
\* A natural number is a sequence of limbs, least significant first, in
\* base 1000, without high zero limbs (zero is << >>).

Base == 1000

RECURSIVE BTrim(_)
BTrim(a) ==
    IF a = << >> THEN << >>
    ELSE IF a[Len(a)] = 0 THEN BTrim(SubSeq(a, 1, Len(a) - 1))
    ELSE a

RECURSIVE BFromInt(_)
BFromInt(n) ==
    IF n = 0 THEN << >> ELSE <<n % Base>> \o BFromInt(n \div Base)

RECURSIVE BToInt(_)
BToInt(a) ==
    IF a = << >> THEN 0 ELSE a[1] + Base * BToInt(Tail(a))

\* a * m + carry, for 0 <= m < Base
RECURSIVE BMulCarry(_, _, _)
BMulCarry(a, m, carry) ==
    IF a = << >>
    THEN (IF carry = 0 THEN << >> ELSE <<carry>>)
    ELSE LET cur == a[1] * m + carry
         IN  <<cur % Base>> \o BMulCarry(Tail(a), m, cur \div Base)

BMulSmall(a, m) == BTrim(BMulCarry(a, m, 0))

RECURSIVE BMulPow(_, _, _)
BMulPow(a, m, n) == IF n = 0 THEN a ELSE BMulPow(BMulSmall(a, m), m, n - 1)

BAddOne(a) == BTrim(BMulCarry(a, 1, 1))

\* Long division by a small divisor m (m * Base must fit a machine integer):
\* limbs i..1 of a with incoming remainder rem.
RECURSIVE BDivRec(_, _, _, _)
BDivRec(a, m, i, rem) ==
    IF i = 0 THEN [q |-> << >>, r |-> rem]
    ELSE LET cur  == rem * Base + a[i]
             rest == BDivRec(a, m, i - 1, cur % m)
         IN  [q |-> rest.q \o <<cur \div m>>, r |-> rest.r]

BDivSmall(a, m) ==
    LET res == BDivRec(a, m, Len(a), 0)
    IN  [q |-> BTrim(res.q), r |-> res.r]

\* a < b, limbs compared from the top
RECURSIVE BLessFrom(_, _, _)
BLessFrom(a, b, i) ==
    IF i = 0 THEN FALSE
    ELSE IF a[i] # b[i] THEN a[i] < b[i]
    ELSE BLessFrom(a, b, i - 1)

BLess(a, b) ==
    IF Len(a) # Len(b) THEN Len(a) < Len(b) ELSE BLessFrom(a, b, Len(a))

BOdd(a) == a # << >> /\ a[1] % 2 = 1

\* floor(a / 2^n) together with whether any one bit was shifted out,
\* taken at most ten bits at a time.
RECURSIVE BShiftRight(_, _, _)
BShiftRight(a, n, sticky) ==
    IF n = 0 \/ a = << >> THEN [q |-> a, sticky |-> sticky]
    ELSE LET step == IF n > 10 THEN 10 ELSE n
             h    == BDivSmall(a, 2 ^ step)
         IN  IF sticky \/ h.r # 0
             THEN BShiftRight(h.q, n - step, TRUE)
             ELSE BShiftRight(h.q, n - step, FALSE)

Pow5(d) == BToInt(BMulPow(<<1>>, 5, d))

\* 2^52 = 512^5 * 2^7 and 2^57 = 2^52 * 2^5
Two52 == BMulSmall(BMulPow(<<1>>, 512, 5), 128)

Two57 == BMulSmall(Two52, 32)

\* ------------------------------------------------- JavaScript numbers
\* The value of a numeric string is kept as the exact decimal it denotes:
\* [nan |-> FALSE, neg, num, dec] stands for (-1)^neg * num / 10^dec.

NaN == [nan |-> TRUE]

Decimal(neg, num, dec) == [nan |-> FALSE, neg |-> neg, num |-> num, dec |-> dec]

\* Least k with num * 2^k >= 2^52 * 5^dec, and that product: the scaling
\* that puts the quotient by 5^dec in [2^52, 2^53).  Nine doublings are
\* taken at once while the product stays below the threshold.
RECURSIVE Normalise(_, _, _)
Normalise(m, k, threshold) ==
    IF BLess(BMulSmall(m, 512), threshold)
    THEN Normalise(BMulSmall(m, 512), k + 9, threshold)
    ELSE IF BLess(m, threshold)
    THEN Normalise(BMulSmall(m, 2), k + 1, threshold)
    ELSE [m |-> m, k |-> k]

\* The double nearest to num / 10^dec (num > 0), as mant * 2^(-exp) with
\* mant a 53-bit integer: round to nearest, ties to even (num / 5^dec has
\* no tie when dec > 0 and is exact when dec = 0).
ToDouble(num, dec) ==
    LET five == Pow5(dec)
        nm   == Normalise(BFromInt(num), 0, BMulPow(Two52, 5, dec))
        qr   == BDivSmall(nm.m, five)
        mant == IF 2 * qr.r > five THEN BAddOne(qr.q) ELSE qr.q
    IN  [mant |-> mant, exp |-> nm.k + dec]

\* The double product x * 100 of a positive double x = mant * 2^(-exp):
\* the exact product mant * 25 * 2^(2 - exp) rounded to 53 bits, ties to even.
TimesHundred(x) ==
    LET p25  == BMulSmall(x.mant, 25)
        s    == IF BLess(p25, Two57) THEN 4 ELSE 5
        qr   == BDivSmall(p25, 2 ^ s)
        half == 2 ^ (s - 1)
        up   == qr.r > half \/ (qr.r = half /\ BOdd(qr.q))
    IN  [mant |-> IF up THEN BAddOne(qr.q) ELSE qr.q, exp |-> x.exp - s - 2]

\* Math.round of (-1)^neg * mant * 2^(-exp), exp >= 1: the nearest integer,
\* a tie going to the one closer to +Infinity (and -0 counted as 0).
MathRound(neg, v) ==
    LET sh == BShiftRight(v.mant, v.exp - 1, FALSE)
        h  == BToInt(sh.q)
    IN  IF ~neg THEN (h + 1) \div 2
        ELSE IF sh.sticky THEN -((h + 1) \div 2)
        ELSE -(h \div 2)

\* Math.round(Number(...) * 100) of line 56-58 on a parsed value: NaN stays
\* NaN, otherwise the integer the double arithmetic yields.
MinorUnits(n) ==
    IF n.nan THEN NaN
    ELSE IF n.num = 0 THEN Decimal(FALSE, 0, 0)
    ELSE LET r == MathRound(n.neg, TimesHundred(ToDouble(n.num, n.dec)))
         IN  Decimal(r < 0, IF r < 0 THEN -r ELSE r, 0)

\* isNaN(amount) written as amount === NaN, which no value satisfies
IsNaNStrictEquality(a) == FALSE

\* line 59
IsNaN(a) == a.nan

\* ------------------------------------------------- Number(string)
Digits == <<"0", "1", "2", "3", "4", "5", "6", "7", "8", "9">>

IsDigit(c) == \E i \in 1..10 : Digits[i] = c

DigitVal(c) == (CHOOSE i \in 1..10 : Digits[i] = c) - 1

IsSpace(c) == c = " "

RECURSIVE TrimLeft(_)
TrimLeft(s) ==
    IF s # << >> /\ IsSpace(Head(s)) THEN TrimLeft(Tail(s)) ELSE s

RECURSIVE TrimRight(_)
TrimRight(s) ==
    IF s # << >> /\ IsSpace(s[Len(s)])
    THEN TrimRight(SubSeq(s, 1, Len(s) - 1)) ELSE s

AllDigits(s) == \A i \in 1..Len(s) : IsDigit(s[i])

RECURSIVE DigitsValue(_)
DigitsValue(s) ==
    IF s = << >> THEN 0
    ELSE 10 * DigitsValue(SubSeq(s, 1, Len(s) - 1)) + DigitVal(s[Len(s)])

\* An unsigned decimal literal: digits, digits "." digits?, or "." digits.
UnsignedDecimal(neg, s) ==
    LET dots == {i \in 1..Len(s) : s[i] = "."}
    IN  IF dots = {} THEN
            IF s # << >> /\ AllDigits(s)
            THEN Decimal(neg, DigitsValue(s), 0) ELSE NaN
        ELSE LET p     == CHOOSE i \in dots : \A j \in dots : i <= j
                 whole == SubSeq(s, 1, p - 1)
                 frac  == SubSeq(s, p + 1, Len(s))
             IN  IF AllDigits(whole) /\ AllDigits(frac) /\ Len(whole) + Len(frac) > 0
                 THEN Decimal(neg, DigitsValue(whole \o frac), Len(frac))
                 ELSE NaN

\* Number(s) for strings of digits, ".", signs, blanks and other characters
\* that belong to no numeric literal: blanks are trimmed, the empty string
\* is 0, a sign may precede a decimal literal, anything else is NaN.
\* (Exponents, "Infinity" and 0x/0o/0b literals are outside the alphabet.)
Number(str) ==
    LET s == TrimRight(TrimLeft(str))
    IN  IF s = << >> THEN Decimal(FALSE, 0, 0)
        ELSE IF Head(s) = "-" THEN UnsignedDecimal(TRUE, Tail(s))
        ELSE IF Head(s) = "+" THEN UnsignedDecimal(FALSE, Tail(s))
        ELSE UnsignedDecimal(FALSE, s)

\* ------------------------------------------------- values
\* JavaScript's undefined, for optional strings.
Undefined == "<undefined>"

\* Truthiness of an optional string: undefined and "" are falsy.
Truthy(v) == v # Undefined /\ v # ""

\* An optional template string (inputOptions.amount, additionalInformation.email).
NoText == [defined |-> FALSE, text |-> << >>]

Text(s) == [defined |-> TRUE, text |-> s]

\* One environment's key pair of StripeCredentialsData, or its absence.
NoEntry == [defined |-> FALSE, secretKey |-> Undefined, publicKey |-> Undefined]

Entry(sk, pk) == [defined |-> TRUE, secretKey |-> sk, publicKey |-> pk]

TestEntries ==
    {NoEntry, Entry("sk_test", Undefined), Entry(Undefined, "pk_test"),
     Entry("sk_test", "pk_test")}

LiveEntries == {NoEntry, Entry(Undefined, "pk_live"), Entry("sk_live", "pk_live")}

\* The value getStripeInfo resolves to: undefined, or the decrypted set.
UndefinedKeys == [defined |-> FALSE, test |-> NoEntry, live |-> NoEntry]

Keys(t, l) == [defined |-> TRUE, test |-> t, live |-> l]

CredentialSets == {Keys(t, l) : t \in TestEntries, l \in LiveEntries}

\* ------------------------------------------------- credential store
\* utils.decrypt(data, iv): the data is what was encrypted under some iv;
\* decryption with another iv, or of a plaintext that is not JSON, throws.
Encrypted(cs, iv) == [iv |-> iv, json |-> TRUE, value |-> cs]

NotJson(iv) == [iv |-> iv, json |-> FALSE, value |-> UndefinedKeys]

decrypt(data, iv) ==
    IF data.iv = iv /\ data.json
    THEN [threw |-> FALSE, value |-> data.value]
    ELSE [threw |-> TRUE, value |-> UndefinedKeys]

\* prisma.credentials rows: findUnique yields null or {data, iv}.
NoRow == [found |-> FALSE, data |-> NotJson(0), iv |-> 0]

Row(data, iv) == [found |-> TRUE, data |-> data, iv |-> iv]

GoodRows == {Row(Encrypted(cs, 1), 1) : cs \in CredentialSets}

BadRows == {Row(Encrypted(Keys(NoEntry, Entry("sk_live", "pk_live")), 1), 2),
            Row(NotJson(1), 1)}

Rows == GoodRows \cup BadRows \cup {NoRow}

CredentialIds == {"cred_a", "cred_b"}

\* ------------------------------------------------- bot-engine parseVariables
\* A template is a sequence of tokens: a character, or a reference to a
\* variable written {{name}}.  Variables are a list of {name, value}.
VarRefs == {"{{price}}", "{{mail}}", "{{none}}"}

\* The name between the braces.
VarName(ref) ==
    CASE ref = "{{price}}" -> "price"
      [] ref = "{{mail}}"  -> "mail"
      [] OTHER             -> "none"

\* The value of the first variable of that name, "" when there is none.
RECURSIVE Lookup(_, _)
Lookup(variables, ref) ==
    IF variables = << >> THEN << >>
    ELSE IF Head(variables).name = VarName(ref) THEN Head(variables).value
    ELSE Lookup(Tail(variables), ref)

RECURSIVE Substitute(_, _)
Substitute(variables, text) ==
    IF text = << >> THEN << >>
    ELSE (IF Head(text) \in VarRefs THEN Lookup(variables, Head(text))
          ELSE <<Head(text)>>) \o Substitute(variables, Tail(text))

\* parseVariables(variables)(text): '' for a missing text.
parseVariables(variables, text) ==
    IF ~text.defined THEN << >> ELSE Substitute(variables, text.text)

\* ------------------------------------------------- handler expressions
\* line 19-35; a symbol outside ASCII is written as its code point
currencySymbols ==
    [c \in {"USD", "EUR", "CRC", "GBP", "ILS", "INR", "JPY", "KRW", "NGN",
            "PHP", "PLN", "PYG", "THB", "UAH", "VND"} |->
        CASE c = "USD" -> "$"  [] c = "EUR" -> "U+20AC"  [] c = "CRC" -> "U+20A1"
          [] c = "GBP" -> "U+00A3"  [] c = "ILS" -> "U+20AA"  [] c = "INR" -> "U+20B9"
          [] c = "JPY" -> "U+00A5"  [] c = "KRW" -> "U+20A9"  [] c = "NGN" -> "U+20A6"
          [] c = "PHP" -> "U+20B1"  [] c = "PLN" -> "z" \o "U+0142" [] c = "PYG" -> "U+20B2"
          [] c = "THB" -> "U+0E3F"  [] c = "UAH" -> "U+20B4"  [] c = "VND" -> "U+20AB"]

\* the test written as credentialsId === undefined
MissingCredentialsIdStrict(id) == id = Undefined

\* line 47: !inputOptions.credentialsId
MissingCredentialsId(id) == ~Truthy(id)

\* line 51: isPreview && stripeKeys?.test?.secretKey
UsesTestSecret(keys, isPreview) ==
    isPreview /\ keys.test.defined /\ Truthy(keys.test.secretKey)

\* line 51-53: the argument of new Stripe(...).  Reading live.secretKey of
\* a set without a live entry is a TypeError.
SecretKeyThrows(keys, isPreview) ==
    ~UsesTestSecret(keys, isPreview) /\ ~keys.live.defined

\* the test key chosen whenever there is one, whatever isPreview says
SecretKeyForIgnoringPreview(keys, isPreview) ==
    IF keys.test.defined /\ Truthy(keys.test.secretKey) THEN keys.test.secretKey
    ELSE keys.live.secretKey

SecretKeyFor(keys, isPreview) ==
    IF UsesTestSecret(keys, isPreview) THEN keys.test.secretKey
    ELSE keys.live.secretKey

\* line 77: isPreview && stripeKeys.test?.publicKey
UsesTestPublic(keys, isPreview) ==
    isPreview /\ keys.test.defined /\ Truthy(keys.test.publicKey)

\* line 76-79
PublicKeyThrows(keys, isPreview) ==
    ~UsesTestPublic(keys, isPreview) /\ ~keys.live.defined

PublicKeyFor(keys, isPreview) ==
    IF UsesTestPublic(keys, isPreview) THEN keys.test.publicKey
    ELSE keys.live.publicKey

\* line 56-58
Amount(variables, amount) == MinorUnits(Number(parseVariables(variables, amount)))

\* line 61-63 and 68: '' becomes undefined
ReceiptEmail(variables, email) ==
    LET receiptEmail == parseVariables(variables, email)
    IN  IF receiptEmail = << >> THEN NoText ELSE Text(receiptEmail)

\* Number-to-string of amount / 100 for an integer amount of minor units.
MajorUnits(amount) ==
    IF amount.nan THEN "NaN" ELSE
    LET whole == ToString(amount.num \div 100)
        cents == amount.num % 100
        sign  == IF amount.neg THEN "-" ELSE ""
    IN  sign \o whole \o
        (IF cents = 0 THEN ""
         ELSE IF cents % 10 = 0 THEN "." \o ToString(cents \div 10)
         ELSE IF cents < 10 THEN ".0" \o ToString(cents)
         ELSE "." \o ToString(cents))

\* line 80-82
AmountLabel(amount, currency) ==
    MajorUnits(amount) \o
    (IF currency \in DOMAIN currencySymbols THEN currencySymbols[currency]
     ELSE " " \o currency)

\* ------------------------------------------------- responses
Response(status, kind) ==
    [status |-> status, kind |-> kind, clientSecret |-> Undefined,
     publicKey |-> Undefined, amountLabel |-> Undefined,
     name |-> Undefined, message |-> Undefined]

\* utils: forbidden(res), badRequest(res), methodNotAllowed(res)
forbidden == Response(403, "forbidden")

badRequest == Response(400, "badRequest")

methodNotAllowed == Response(405, "methodNotAllowed")

\* line 74-83: res.send of the result, with the default status
Success(paymentIntent, publicKey, amountLabel) ==
    [Response(200, "success") EXCEPT !.clientSecret = paymentIntent.client_secret,
                                     !.publicKey = publicKey,
                                     !.amountLabel = amountLabel]

\* A value inside a template literal: undefined prints as "undefined".
TemplateString(v) == IF v = Undefined THEN "undefined" ELSE v

\* every failure answered with status 500
NormalizeErrorAlways500(error) == Response(500, "internalError")

\* line 85-95: 'raw' in error ? res.status(raw.statusCode).send(...) :
\* res.status(500).send({error})
NormalizeError(error) ==
    IF error.kind = "raw"
    THEN [Response(error.raw.statusCode, "providerError") EXCEPT
              !.name = TemplateString(error.raw.type) \o " " \o
                       TemplateString(error.raw.param),
              !.message = error.raw.message]
    ELSE Response(500, "internalError")

\* An exception that leaves the handler: the route answers 500.
Uncaught == Response(500, "uncaught")

\* ------------------------------------------------- gateway
Pending == [kind |-> "pending"]

PaymentIntents == {[kind |-> "intent", client_secret |-> "pi_1_secret"]}

RawErrors ==
    {[kind |-> "raw",
      raw |-> [statusCode |-> 402, type |-> "card_error", param |-> "cvc",
               message |-> "Your card's security code is incorrect."]],
     [kind |-> "raw",
      raw |-> [statusCode |-> 400, type |-> "invalid_request_error",
               param |-> Undefined, message |-> "Invalid integer"]]}

OtherErrors == {[kind |-> "other"]}

\* What stripe.paymentIntents.create may settle to: the gateway creates no
\* intent for a client that has no API key.
GatewayOutcomes(call) ==
    RawErrors \cup OtherErrors \cup
    (IF Truthy(call.apiKey) THEN PaymentIntents ELSE {})

\* ------------------------------------------------- state
Procs == 1..NumProcs

VARIABLES
    req,         \* per invocation: the request it serves
    pc,          \* per invocation: where the handler stands
    stripeKeys,  \* per invocation: const stripeKeys (line 48)
    lookups,     \* per invocation: findUnique calls issued
    fetched,     \* per invocation: the row findUnique gave it
    decrypts,    \* per invocation: decrypt calls made
    calls,       \* per invocation: paymentIntents.create calls, in order
    outcome,     \* per invocation: what its create call settled to
    res,         \* per invocation: responses sent, in order
    store,       \* prisma.credentials: id -> row
    edits        \* row changes other programs will still make

vars == <<req, pc, stripeKeys, lookups, fetched, decrypts, calls, outcome,
          res, store, edits>>

Terminal == {"Responded", "Failed"}

NoRequest ==
    [method |-> "NONE", credentialsId |-> Undefined, isPreview |-> FALSE,
     amount |-> NoText, currency |-> "USD", email |-> NoText,
     variables |-> << >>]

\* res.send / forbidden / badRequest: the handler returns with a response
Reply(p, next, response) ==
    /\ pc' = [pc EXCEPT ![p] = next]
    /\ res' = [res EXCEPT ![p] = Append(@, response)]

\* the row kept from an earlier invocation's query for the same id
findUniqueCached(id) ==
    IF \E q \in Procs : fetched[q].found /\ req[q].credentialsId = id
    THEN fetched[CHOOSE q \in Procs : fetched[q].found /\ req[q].credentialsId = id]
    ELSE IF id \in DOMAIN store THEN store[id] ELSE NoRow

\* line 104-106: prisma.credentials.findUnique({where: {id}})
findUnique(id) == IF id \in DOMAIN store THEN store[id] ELSE NoRow

\* a decrypt failure caught and answered like a missing row
getStripeInfoSwallowing(credentials) ==
    [threw |-> FALSE,
     value |-> IF credentials.found /\ ~decrypt(credentials.data, credentials.iv).threw
               THEN decrypt(credentials.data, credentials.iv).value
               ELSE UndefinedKeys]

\* line 101-109 once the query has returned
getStripeInfo(credentials) ==
    IF ~credentials.found THEN [threw |-> FALSE, value |-> UndefinedKeys]
    ELSE decrypt(credentials.data, credentials.iv)

\* line 38-48: up to the await of getStripeInfo
HandlerStart(p) ==
    /\ pc[p] = "Start"
    /\ UNCHANGED <<req, stripeKeys, fetched, decrypts, calls, outcome, store, edits>>
    /\ IF req[p].method # "POST"
       THEN Reply(p, "Failed", methodNotAllowed) /\ UNCHANGED lookups
       ELSE IF MissingCredentialsId(req[p].credentialsId)
       THEN Reply(p, "Failed", forbidden) /\ UNCHANGED lookups
       ELSE /\ pc' = [pc EXCEPT ![p] = "AwaitCredentials"]
            /\ lookups' = [lookups EXCEPT ![p] = @ + 1]
            /\ UNCHANGED res

\* line 101-109: the query returns and getStripeInfo settles
GetStripeInfoReturn(p) ==
    /\ pc[p] = "AwaitCredentials"
    /\ UNCHANGED <<req, lookups, calls, outcome, store, edits>>
    /\ LET credentials == findUnique(req[p].credentialsId)
           result      == getStripeInfo(credentials)
       IN  /\ fetched' = [fetched EXCEPT ![p] = credentials]
           /\ decrypts' = [decrypts EXCEPT ![p] = IF credentials.found THEN @ + 1 ELSE @]
           /\ IF result.threw
              THEN Reply(p, "Failed", Uncaught) /\ UNCHANGED stripeKeys
              ELSE /\ stripeKeys' = [stripeKeys EXCEPT ![p] = result.value]
                   /\ pc' = [pc EXCEPT ![p] = "CredentialsResolved"]
                   /\ UNCHANGED res

\* line 65-72: the arguments of paymentIntents.create
CreateCall(p, amount) ==
    [apiKey |-> SecretKeyFor(stripeKeys[p], req[p].isPreview),
     amount |-> amount,
     currency |-> req[p].currency,
     receipt_email |-> ReceiptEmail(req[p].variables, req[p].email)]

\* line 49-72: from the resolved credentials to the await of the gateway.
\* A client made without a key either throws at once or sends the call,
\* depending on the gateway library.
HandlerResume(p) ==
    /\ pc[p] = "CredentialsResolved"
    /\ UNCHANGED <<req, stripeKeys, lookups, fetched, decrypts, outcome, store, edits>>
    /\ LET keys   == stripeKeys[p]
           amount == Amount(req[p].variables, req[p].amount)
       IN  IF ~keys.defined
           THEN Reply(p, "Failed", forbidden) /\ UNCHANGED calls
           ELSE IF SecretKeyThrows(keys, req[p].isPreview)
           THEN Reply(p, "Failed", Uncaught) /\ UNCHANGED calls
           ELSE \/ /\ ~Truthy(SecretKeyFor(keys, req[p].isPreview))
                   /\ Reply(p, "Failed", Uncaught)
                   /\ UNCHANGED calls
                \/ IF IsNaN(amount)
                   THEN Reply(p, "Failed", badRequest) /\ UNCHANGED calls
                   ELSE /\ calls' = [calls EXCEPT ![p] = Append(@, CreateCall(p, amount))]
                        /\ pc' = [pc EXCEPT ![p] = "AwaitGateway"]
                        /\ UNCHANGED res

\* line 73-83: the intent was created
Succeed(p, paymentIntent) ==
    /\ UNCHANGED calls
    /\ IF PublicKeyThrows(stripeKeys[p], req[p].isPreview)
       THEN Reply(p, "Failed", NormalizeError([kind |-> "other"]))
       ELSE Reply(p, "Responded",
                  Success(paymentIntent,
                          PublicKeyFor(stripeKeys[p], req[p].isPreview),
                          AmountLabel(calls[p][Len(calls[p])].amount, req[p].currency)))

\* the create call issued once more after its first failure
FailRetrying(p, error) ==
    IF Len(calls[p]) < 2
    THEN /\ calls' = [calls EXCEPT ![p] = Append(@, @[Len(@)])]
         /\ UNCHANGED <<pc, res>>
    ELSE /\ UNCHANGED calls
         /\ Reply(p, "Failed", NormalizeError(error))

\* line 84-96: the create call threw
Fail(p, error) ==
    /\ UNCHANGED calls
    /\ Reply(p, "Failed", NormalizeError(error))

\* line 65-96: the gateway call settles
GatewayReturn(p) ==
    /\ pc[p] = "AwaitGateway"
    /\ UNCHANGED <<req, stripeKeys, lookups, fetched, decrypts, store, edits>>
    /\ \E o \in GatewayOutcomes(calls[p][Len(calls[p])]) :
          /\ outcome' = [outcome EXCEPT ![p] = o]
          /\ IF o.kind = "intent" THEN Succeed(p, o) ELSE Fail(p, o)

\* Another program (the builder) rewrites or deletes a credentials row.
StoreUpdate ==
    /\ \E e \in edits :
          /\ store' = [store EXCEPT ![e.id] = e.row]
          /\ edits' = edits \ {e}
    /\ UNCHANGED <<req, pc, stripeKeys, lookups, fetched, decrypts, calls, outcome, res>>

Next ==
    \/ \E p \in Procs : HandlerStart(p)
    \/ \E p \in Procs : GetStripeInfoReturn(p)
    \/ \E p \in Procs : HandlerResume(p)
    \/ \E p \in Procs : GatewayReturn(p)
    \/ StoreUpdate

\* ------------------------------------------------- initial states
InitLocals ==
    /\ stripeKeys = [p \in Procs |-> UndefinedKeys]
    /\ lookups = [p \in Procs |-> 0]
    /\ fetched = [p \in Procs |-> NoRow]
    /\ decrypts = [p \in Procs |-> 0]
    /\ calls = [p \in Procs |-> << >>]
    /\ outcome = [p \in Procs |-> Pending]
    /\ res = [p \in Procs |-> << >>]

Var(name, value) == [name |-> name, value |-> value]

\* One invocation, the request ranging over methods, credential ids,
\* preview flags, amount and email templates and variable lists; the row of
\* cred_a ranging over every row, with at most one later change to it.
AmountTexts ==
    {NoText, Text(<<"1", "0">>), Text(<<"{{price}}">>),
     Text(<<"1", "{{none}}", ".", "{{price}}">>)}

VariableLists ==
    {<< >>,
     <<Var("price", <<"1", "9", ".", "9", "9", "9">>), Var("mail", <<"a", "@", "b">>)>>,
     <<Var("mail", << >>), Var("price", <<"a", "b", "c">>), Var("price", <<"5">>)>>}

Requests ==
    [method : {"POST", "GET"},
     credentialsId : {Undefined, "", "cred_a"},
     isPreview : BOOLEAN,
     amount : AmountTexts,
     currency : {"USD", "XOF"},
     email : {NoText, Text(<<"{{mail}}">>)},
     variables : VariableLists]

LaterRows ==
    {NoRow, Row(NotJson(1), 1),
     Row(Encrypted(Keys(Entry("sk_test", "pk_test"), Entry("sk_live", "pk_live")), 1), 1)}

Init ==
    /\ InitLocals
    /\ \E r \in Requests : req = [p \in Procs |-> IF p = 1 THEN r ELSE NoRequest]
    /\ pc = [p \in Procs |-> IF p = 1 THEN "Start" ELSE "Idle"]
    /\ \E row \in Rows : store = [id \in CredentialIds |-> IF id = "cred_a" THEN row ELSE NoRow]
    /\ \E row \in LaterRows : edits \in {{}, {[id |-> "cred_a", row |-> row]}}

Spec == Init /\ [][Next]_vars

\* One invocation with usable credentials, the amount being a variable
\* whose value ranges over every string over Alphabet of length <= MaxLen.
Alphabet == {"1", "4", "5", ".", "-", "a", " "}

Strings(n) == UNION {[1..k -> Alphabet] : k \in 0..n}

AmountRequest(s, preview) ==
    [method |-> "POST", credentialsId |-> "cred_a", isPreview |-> preview,
     amount |-> Text(<<"{{price}}">>), currency |-> "USD", email |-> NoText,
     variables |-> <<Var("price", s)>>]

InitAmount ==
    /\ InitLocals
    /\ \E s \in Strings(MaxLen), preview \in BOOLEAN :
          req = [p \in Procs |-> IF p = 1 THEN AmountRequest(s, preview) ELSE NoRequest]
    /\ pc = [p \in Procs |-> IF p = 1 THEN "Start" ELSE "Idle"]
    /\ store = [id \in CredentialIds |->
                  Row(Encrypted(Keys(Entry("sk_test", "pk_test"),
                                     Entry("sk_live", "pk_live")), 1), 1)]
    /\ edits = {[id |-> "cred_b", row |-> NoRow]}

SpecAmount == InitAmount /\ [][Next]_vars

\* Every invocation in flight at once, each with its own amount, over two
\* credentials with different keys, one of which is rotated meanwhile.
RowA == Row(Encrypted(Keys(Entry("sk_test_a", "pk_test_a"), Entry("sk_live_a", "pk_live_a")), 1), 1)

RowA2 == Row(Encrypted(Keys(NoEntry, Entry("sk_live_a2", "pk_live_a2")), 2), 2)

RowB == Row(Encrypted(Keys(NoEntry, Entry("sk_live_b", "pk_live_b")), 1), 1)

ConcRequest(p, id, preview) ==
    [method |-> "POST", credentialsId |-> id, isPreview |-> preview,
     amount |-> Text(<<Digits[p + 1]>>), currency |-> "EUR", email |-> NoText,
     variables |-> << >>]

InitConc ==
    /\ InitLocals
    /\ \E ids \in [Procs -> CredentialIds], previews \in [Procs -> BOOLEAN] :
          req = [p \in Procs |-> ConcRequest(p, ids[p], previews[p])]
    /\ pc = [p \in Procs |-> "Start"]
    /\ store = [id \in CredentialIds |-> IF id = "cred_a" THEN RowA ELSE RowB]
    /\ edits = {[id |-> "cred_a", row |-> RowA2]}

SpecConc == InitConc /\ [][Next]_vars

\* ------------------------------------------------- properties
Post(p) == req[p].method = "POST"

\* The amount string after interpolation.
Interpolated(p) == parseVariables(req[p].variables, req[p].amount)

\* The resolved set offers a secret key to this request.
UsableSecretKey(p) ==
    /\ stripeKeys[p].defined
    /\ \/ req[p].isPreview /\ stripeKeys[p].test.defined /\ Truthy(stripeKeys[p].test.secretKey)
       \/ stripeKeys[p].live.defined /\ Truthy(stripeKeys[p].live.secretKey)

HasTestSecret(p) ==
    stripeKeys[p].test.defined /\ Truthy(stripeKeys[p].test.secretKey)

\* C1: a POST whose credentials give a usable secret key and whose
\* interpolated amount does not parse to a number makes no gateway call and,
\* once the handler has resumed, has ended with the 400 response.
C1_NonNumericAmountRejected ==
    \A p \in Procs :
        (Post(p) /\ UsableSecretKey(p) /\ Number(Interpolated(p)).nan) =>
            /\ calls[p] = << >>
            /\ outcome[p] = Pending
            /\ pc[p] \in {"CredentialsResolved", "Failed"}
            /\ pc[p] = "Failed" => res[p] = <<badRequest>>

C1_Witness ==
    \E p \in Procs :
        /\ Post(p) /\ UsableSecretKey(p) /\ Number(Interpolated(p)).nan
        /\ Interpolated(p) = <<"1", ".", "4", "a">>
        /\ pc[p] = "Failed" /\ res[p] = <<badRequest>> /\ calls[p] = << >>

\* C2: a POST whose credentialsId is empty or absent ends with the 403
\* response without any store lookup, decryption or gateway call.
C2_MissingIdForbiddenBeforeLookup ==
    \A p \in Procs :
        (Post(p) /\ req[p].credentialsId \in {Undefined, ""}) =>
            /\ lookups[p] = 0 /\ decrypts[p] = 0 /\ fetched[p] = NoRow
            /\ calls[p] = << >>
            /\ pc[p] \in {"Start", "Failed"}
            /\ pc[p] = "Failed" => res[p] = <<forbidden>>

C2_Witness ==
    \E p \in Procs :
        /\ Post(p) /\ req[p].credentialsId = ""
        /\ pc[p] = "Failed" /\ res[p] = <<forbidden>> /\ lookups[p] = 0

\* C3: every gateway call is made with the test secret key when isPreview
\* holds and the set has a test secret key, and with the live secret key
\* when isPreview holds without a test secret key or isPreview is false.
C3_SecretKeySelection ==
    \A p \in Procs : \A i \in 1..Len(calls[p]) :
        /\ (req[p].isPreview /\ HasTestSecret(p)) =>
               /\ calls[p][i].apiKey = stripeKeys[p].test.secretKey
               /\ calls[p][i].apiKey # stripeKeys[p].live.secretKey
        /\ (req[p].isPreview /\ ~HasTestSecret(p)) =>
               calls[p][i].apiKey = stripeKeys[p].live.secretKey
        /\ ~req[p].isPreview => calls[p][i].apiKey = stripeKeys[p].live.secretKey

C3_Witness ==
    \E p \in Procs :
        /\ Len(calls[p]) = 1 /\ req[p].isPreview
        /\ stripeKeys[p].live.secretKey = "sk_live"
        /\ calls[p][1].apiKey = "sk_test"

\* C4: the test public key is returned only when isPreview holds and a test
\* secret key exists; whenever the gateway call used the live secret key the
\* success response carries the live public key.
C4_PairSelection ==
    \A p \in Procs :
        (pc[p] = "Responded" /\ res[p][1].kind = "success") =>
            /\ (stripeKeys[p].test.defined /\ res[p][1].publicKey = stripeKeys[p].test.publicKey
                    /\ res[p][1].publicKey # stripeKeys[p].live.publicKey) =>
                   (req[p].isPreview /\ HasTestSecret(p))
            /\ calls[p][1].apiKey = stripeKeys[p].live.secretKey =>
                   res[p][1].publicKey = stripeKeys[p].live.publicKey

\* C5: a POST whose record was found and decrypted but whose set offers no
\* usable secret key ends Failed with the 403 response and no gateway call.
C5_UnusableKeysForbidden ==
    \A p \in Procs :
        (Post(p) /\ fetched[p].found /\ stripeKeys[p].defined /\ ~UsableSecretKey(p)) =>
            /\ calls[p] = << >>
            /\ pc[p] \in {"CredentialsResolved", "Failed"}
            /\ pc[p] = "Failed" => res[p] = <<forbidden>>

\* C6: a gateway failure carrying a raw payload is answered with status
\* raw.statusCode, name "{raw.type} {raw.param}" and message raw.message
\* (402 / card_error / cvc gives 402 and "card_error cvc"); any other
\* thrown error is answered with 500; neither is answered as a success.
C6_GatewayFailureClassified ==
    \A p \in Procs :
        /\ outcome[p].kind = "raw" =>
              /\ pc[p] = "Failed" /\ Len(res[p]) = 1
              /\ res[p][1].status = outcome[p].raw.statusCode
              /\ res[p][1].name =
                     outcome[p].raw.type \o " " \o
                     (IF outcome[p].raw.param = Undefined THEN "undefined"
                      ELSE outcome[p].raw.param)
              /\ res[p][1].message = outcome[p].raw.message
              /\ (outcome[p].raw.type = "card_error" /\ outcome[p].raw.param = "cvc") =>
                     (res[p][1].status = 402 /\ res[p][1].name = "card_error cvc")
        /\ outcome[p].kind = "other" =>
              pc[p] = "Failed" /\ Len(res[p]) = 1 /\ res[p][1].status = 500
        /\ outcome[p].kind \in {"raw", "other"} =>
              /\ res[p][1].kind # "success" /\ res[p][1].status # 200
              /\ res[p][1].clientSecret = Undefined

C6_Witness ==
    \E p \in Procs :
        /\ outcome[p].kind = "raw" /\ outcome[p].raw.param = "cvc"
        /\ res[p] # << >> /\ res[p][1].status = 402
        /\ res[p][1].name = "card_error cvc"

\* C7: when the record is found but decrypting or deserialising it fails,
\* the request ends Failed with a 500 response, no credentials resolved and
\* no gateway call.
C7_DecryptFailureIs500 ==
    \A p \in Procs :
        (fetched[p].found /\ decrypt(fetched[p].data, fetched[p].iv).threw) =>
            /\ pc[p] = "Failed"
            /\ Len(res[p]) = 1 /\ res[p][1].status = 500
            /\ ~stripeKeys[p].defined
            /\ calls[p] = << >>

C7_Witness ==
    \E p \in Procs :
        /\ fetched[p].found /\ ~fetched[p].data.json
        /\ pc[p] = "Failed" /\ res[p] = <<Uncaught>>

\* The integer nearest to (-1)^neg * num * 100 / 10^dec, halves rounded up.
RECURSIVE Pow10(_)
Pow10(d) == IF d = 0 THEN 1 ELSE 10 * Pow10(d - 1)

NearestHalfUp(n) ==
    LET signed == IF n.neg THEN -n.num ELSE n.num
    IN  (2 * 100 * signed + Pow10(n.dec)) \div (2 * Pow10(n.dec))

AsInteger(a) == IF a.neg THEN -a.num ELSE a.num

\* C8: for an interpolated amount that parses to the decimal x the gateway
\* receives the integer nearest to x * 100, halves rounded up; zero and
\* negative results are passed to the gateway like any other.
C8_AmountIsNearestInteger ==
    \A p \in Procs :
        (Post(p) /\ UsableSecretKey(p) /\ ~Number(Interpolated(p)).nan
              /\ pc[p] # "CredentialsResolved") =>
            /\ Len(calls[p]) = 1
            /\ ~calls[p][1].amount.nan
            /\ AsInteger(calls[p][1].amount) = NearestHalfUp(Number(Interpolated(p)))

\* What the row an invocation fetched decrypts to.
OwnKeys(p) == decrypt(fetched[p].data, fetched[p].iv).value

\* Everything invocation p holds, sends and answers is determined by its
\* own request, the row it fetched and the outcome of its own gateway call.
OwnResult(p) ==
    /\ stripeKeys[p].defined => (fetched[p].found /\ stripeKeys[p] = OwnKeys(p))
    /\ \A i \in 1..Len(calls[p]) :
          /\ calls[p][i].apiKey =
                 (IF req[p].isPreview /\ Truthy(OwnKeys(p).test.secretKey)
                  THEN OwnKeys(p).test.secretKey ELSE OwnKeys(p).live.secretKey)
          /\ calls[p][i].amount = Decimal(FALSE, 100 * p, 0)
          /\ calls[p][i].currency = req[p].currency
    /\ pc[p] = "Responded" =>
          /\ outcome[p].kind = "intent"
          /\ res[p][1].clientSecret = outcome[p].client_secret
          /\ res[p][1].publicKey =
                 (IF req[p].isPreview /\ Truthy(OwnKeys(p).test.publicKey)
                  THEN OwnKeys(p).test.publicKey ELSE OwnKeys(p).live.publicKey)
          /\ res[p][1].amountLabel = ToString(p) \o "U+20AC"
    /\ (pc[p] = "Failed" /\ outcome[p].kind = "raw") =>
          res[p][1].status = outcome[p].raw.statusCode

\* The step in which the credentials query of p returns.
QueryReturns(p) == pc[p] = "AwaitCredentials" /\ pc'[p] # "AwaitCredentials"

\* C9: under any interleaving of concurrent invocations each one's secret
\* key, amount and response depend only on its own request and on the row
\* it read itself; every POST with a credentialsId makes one lookup of its
\* own, which returns the row the store holds at that moment.
C9_InvocationsIsolated ==
    /\ [](\A p \in Procs : OwnResult(p))
    /\ [](\A p \in Procs : pc[p] # "Start" => lookups[p] = 1)
    /\ [][\A p \in Procs :
            QueryReturns(p) => fetched'[p] = store[req[p].credentialsId]]_vars

C9_Witness ==
    \E p, q \in Procs :
        /\ p # q
        /\ req[p].credentialsId = "cred_a" /\ req[q].credentialsId = "cred_a"
        /\ ~req[p].isPreview /\ ~req[q].isPreview
        /\ pc[p] = "Responded" /\ pc[q] = "Responded"
        /\ calls[p][1].apiKey = "sk_live_a" /\ calls[q][1].apiKey = "sk_live_a2"
        /\ calls[p][1].amount # calls[q][1].amount

\* C10: an invocation makes at most one gateway call and sends at most one
\* response; a failed call leads straight to the normalised error response
\* without another attempt; a terminal invocation takes no further step.
C10_SingleAttemptThenTerminal ==
    /\ [](\A p \in Procs :
            /\ Len(calls[p]) <= 1 /\ Len(res[p]) <= 1
            /\ pc[p] \in Terminal <=> Len(res[p]) = 1)
    /\ [][\A p \in Procs :
            /\ pc[p] \in Terminal =>
                  /\ pc'[p] = pc[p] /\ res'[p] = res[p] /\ calls'[p] = calls[p]
                  /\ lookups'[p] = lookups[p] /\ decrypts'[p] = decrypts[p]
            /\ (outcome[p] = Pending /\ outcome'[p].kind \in {"raw", "other"}) =>
                  /\ pc'[p] = "Failed"
                  /\ calls'[p] = calls[p]
                  /\ Len(res'[p]) = 1 /\ res'[p][1].kind # "success"]_vars

C10_Witness ==
    \E p \in Procs :
        /\ Len(calls[p]) = 1 /\ outcome[p].kind = "raw"
        /\ pc[p] = "Failed" /\ Len(res[p]) = 1

====
